---- MODULE Spec2Model ----
(***************************************************************************)
(* Flash orchestration of etcher.                                          *)
(*                                                                         *)
(*   - lib/cli/etcher.js: the same-process orchestrator, the promise that  *)
(*     starts one ImageWriter per selected drive, aggregates their         *)
(*     progress and resolves with the list of results;                     *)
(*   - the child writer (src/unnamed/part_000): the IPC worker that runs   *)
(*     the writers on behalf of a controller process.                      *)
(*                                                                         *)
(* The two programs are separate processes; each has its own               *)
(* specification over its own variables.                                   *)
(***************************************************************************)
EXTENDS Integers, Sequences, FiniteSets, TLC

(***************************************************************************)
(* Bounds of the model.                                                    *)
(***************************************************************************)
NumDevices == 3
MaxProgress == 2
MaxExtra == 1
NumDestinations == 2
MaxRuns == 2
MaxStates == 2
MaxSessions == 2
MaxPending == 2

Devices == 1..NumDevices

(***************************************************************************)
(* shared/exit-codes                                                       *)
(***************************************************************************)
SUCCESS == 0
GENERAL_ERROR == 1
VALIDATION_ERROR == 2

(***************************************************************************)
(* Values the writers report.                                              *)
(***************************************************************************)
NumericFields ==
  <<"delta", "transferred", "percentage", "remaining", "runtime", "speed", "eta">>

Samples ==
  { [type |-> "write", delta |-> 2, transferred |-> 40, percentage |-> 40,
     remaining |-> 60, runtime |-> 4, speed |-> 10, eta |-> 6],
    [type |-> "write", delta |-> 1, transferred |-> 50, percentage |-> 50,
     remaining |-> 50, runtime |-> 10, speed |-> 5, eta |-> 10],
    [type |-> "check", delta |-> 3, transferred |-> 90, percentage |-> 90,
     remaining |-> 10, runtime |-> 9, speed |-> 10, eta |-> 1] }

\* The worker forwards the states as they are: one sample per phase suffices.
WorkerSamples == { s \in Samples : s.percentage # 50 }
WorkerChecksums == {"AAA"}

ErrorValues == {"write failed"}
Checksums == {"AAA", "CCC"}

\* new ImageWriter({ path: drive, ... }): the writer keeps its options.
ImageWriter(drive) == [options |-> [path |-> drive]]

\* The progress state a writer emits: a sample that names its device.
ProgressState(d, s) == [device |-> d] @@ s

\* The state a writer emits with `finish`.
FinishState(d, c) == [drive |-> [device |-> d], checksum |-> [crc32 |-> c]]

(***************************************************************************)
(* JavaScript numbers: the quotients are kept exact, as reduced fractions. *)
(* x / 0 is NaN for x = 0 (the only case the sums can produce with an      *)
(* empty map).                                                             *)
(***************************************************************************)
RECURSIVE GCD(_, _)
GCD(a, b) == IF b = 0 THEN a ELSE GCD(b, a % b)

NaN == <<0, 0>>

Divide(sum, length) ==
  IF length = 0 THEN NaN
  ELSE LET g == GCD(sum, length) IN <<sum \div g, length \div g>>

Number(n) == Divide(n, 1)

\* Map helpers (Map.prototype.set / delete / size).
MapSet(m, k, v) == (k :> v) @@ m
MapDelete(m, k) == [x \in (DOMAIN m) \ {k} |-> m[x]]
MapSize(m) == Cardinality(DOMAIN m)
EmptyMap == [x \in {} |-> 0]

(***************************************************************************)
(* State of the same-process orchestrator (lib/cli/etcher.js).             *)
(***************************************************************************)
VARIABLES
  drive,        \* answers.drive: the selected drives, in order
  started,      \* how many drives answers.drive.forEach has visited
  session,      \* per device, its writer: "pending", "active", "errored", "finished"
  payload,      \* per device: the value of its writer's terminal event ("" before)
  handled,      \* the devices whose terminal event was handled, in that order
  writers,      \* Map device -> writer
  states,       \* Map device -> latest progress state
  progress,     \* the aggregated progress object
  results,      \* the results array
  resolveCalls, \* how many times resolve(results) was called
  settled,      \* the promise is resolved
  barUpdates,   \* number of progressBars[...].update(progress) calls
  lastBar,      \* the bar that received the last update
  nprogress,    \* progress events delivered so far
  nextra,       \* events delivered by writers after their terminal event
  cliExit       \* process.exit code, or -1 while running

cliVars == <<drive, started, session, payload, handled, writers, states, progress, results,
             resolveCalls, settled, barUpdates, lastBar, nprogress, nextra,
             cliExit>>

(***************************************************************************)
(* State of the IPC worker (the child writer).                             *)
(***************************************************************************)
VARIABLES
  wstate,       \* position of the worker: "disconnected", "connecting", "idle",
                \* "running", "terminating", "exited"
  connected,    \* ipc.of[IPC_SERVER_ID] is there (until ipc.disconnect)
  outbox,       \* the events emitted to the IPC server: per event name how
                \* many were emitted and the data of the last one, and the
                \* name of the event emitted last
  runs,         \* one record per `write` command: its writers, results and
                \* exitCode, with the status of each writer ("active",
                \* "errored", "finished"), the latest state each active
                \* writer has emitted, and the devices whose terminal event
                \* was handled, in that order
  nextTick,     \* the exit codes of the process.nextTick callbacks queued
  wexit,        \* process.exit code, or -1 while the process lives
  uncaught,     \* the once-handler of uncaughtException is still registered
  cause,        \* what called terminate first ("none" before)
  terminateCalls, \* how many times terminate was called
  abortedActive,\* sessions still active when an abort trigger was first
                \* delivered (-1 before)
  lastProgress, \* the last progress event a writer has emitted: its state, and
                \* the average of the latest states of its run's active writers
  nstates       \* progress events delivered to the worker so far

workerVars == <<wstate, connected, outbox, runs, nextTick, wexit, uncaught,
                cause, terminateCalls, abortedActive, lastProgress, nstates>>

vars == <<cliVars, workerVars>>

RECURSIVE SeqsOver(_, _)
SeqsOver(S, n) ==
  IF n = 0 THEN {<<>>}
  ELSE LET shorter == SeqsOver(S, n - 1)
       IN shorter \cup { Append(q, x) : q \in { r \in shorter : Len(r) = n - 1 }, x \in S }

Range(q) == { q[i] : i \in 1..Len(q) }

\* Non-empty lists of distinct drives. The drives are only put into a Map, one
\* by one, so the order of the list has no effect: ascending lists are taken.
DriveLists ==
  { q \in SeqsOver(Devices, NumDevices) :
      Len(q) > 0 /\ \A i, j \in 1..Len(q) : i < j => q[i] < q[j] }

InitialProgress ==
  [type |-> "write", delta |-> Number(0), transferred |-> Number(0),
   percentage |-> Number(0), remaining |-> Number(0), runtime |-> Number(0),
   speed |-> Number(0), eta |-> Number(0)]

CliInit ==
  /\ drive \in DriveLists
  /\ started = 0
  /\ session = [d \in Devices |-> "pending"]
  /\ payload = [d \in Devices |-> ""]
  /\ handled = <<>>
  /\ writers = EmptyMap
  /\ states = EmptyMap
  /\ progress = InitialProgress
  /\ results = <<>>
  /\ resolveCalls = 0
  /\ settled = FALSE
  /\ barUpdates = 0
  /\ lastBar = "none"
  /\ nprogress = 0
  /\ nextra = 0
  /\ cliExit = -1

RECURSIVE SumField(_, _, _)
SumField(m, S, f) ==
  IF S = {} THEN 0
  ELSE LET k == CHOOSE x \in S : TRUE
       IN m[k][f] + SumField(m, S \ {k}, f)

Writing(m) == Cardinality({ k \in DOMAIN m : m[k].type = "write" })

\* The aggregate onProgress computes over a map of states.
Average(m) ==
  [f \in {"type"} \cup Range(NumericFields) |->
     IF f = "type"
     THEN (IF Writing(m) > 0 THEN "write" ELSE "check")
     ELSE Divide(SumField(m, DOMAIN m, f), MapSize(m))]

\* resolve(results): only the first call settles the promise.
resolve ==
  /\ resolveCalls' = resolveCalls + 1
  /\ settled' = TRUE

\* onProgress that averages the map before it records the new state.
onProgressBeforeSet(state) ==
  LET newProgress == Average(states)
  IN /\ states' = MapSet(states, state.device, state)
     /\ progress' = newProgress
     /\ barUpdates' = barUpdates + 1
     /\ lastBar' = newProgress.type
     /\ UNCHANGED <<writers, results, resolveCalls, settled>>

\* onProgress that sums the states and does not divide the sums.
onProgressSums(state) ==
  LET newStates == MapSet(states, state.device, state)
      newProgress == [f \in {"type"} \cup Range(NumericFields) |->
                        IF f = "type" THEN Average(newStates).type
                        ELSE Number(SumField(newStates, DOMAIN newStates, f))]
  IN /\ states' = newStates
     /\ progress' = newProgress
     /\ barUpdates' = barUpdates + 1
     /\ lastBar' = newProgress.type
     /\ UNCHANGED <<writers, results, resolveCalls, settled>>

\* onProgress without resetProgress: the sums start from the last aggregate.
onProgressCarriesOver(state) ==
  LET newStates == MapSet(states, state.device, state)
      newProgress == [f \in {"type"} \cup Range(NumericFields) |->
                        IF f = "type" THEN Average(newStates).type
                        ELSE Divide(progress[f][1]
                                      + SumField(newStates, DOMAIN newStates, f)
                                          * progress[f][2],
                                    progress[f][2] * MapSize(newStates))]
  IN /\ states' = newStates
     /\ progress' = newProgress
     /\ barUpdates' = barUpdates + 1
     /\ lastBar' = newProgress.type
     /\ UNCHANGED <<writers, results, resolveCalls, settled>>

onProgress(state) ==
  LET newStates == MapSet(states, state.device, state)
      newProgress == Average(newStates)
  IN /\ states' = newStates
     /\ progress' = newProgress
     /\ barUpdates' = barUpdates + 1
     /\ lastBar' = newProgress.type
     /\ UNCHANGED <<writers, results, resolveCalls, settled>>

\* onError that leaves the failed writer in the map.
onErrorKeepsWriter(this, error) ==
  /\ results' = Append(results, [device |-> this.options.path, error |-> error])
  /\ states' = MapDelete(states, this.options.path)
  /\ UNCHANGED <<writers, resolveCalls, settled, progress, barUpdates, lastBar>>

\* onError that gives up on every writer.
onErrorAbortsAll(this, error) ==
  /\ results' = Append(results, [device |-> this.options.path, error |-> error])
  /\ writers' = EmptyMap
  /\ states' = EmptyMap
  /\ resolve
  /\ UNCHANGED <<progress, barUpdates, lastBar>>

onError(this, error) ==
  /\ results' = Append(results, [device |-> this.options.path, error |-> error])
  /\ writers' = MapDelete(writers, this.options.path)
  /\ states' = MapDelete(states, this.options.path)
  /\ IF MapSize(writers') = 0
     THEN resolve
     ELSE UNCHANGED <<resolveCalls, settled>>
  /\ UNCHANGED <<progress, barUpdates, lastBar>>

\* onFinish that resolves without looking at the writers left.
onFinishAlwaysResolves(this, state) ==
  /\ results' = Append(results, [device |-> this.options.path, flash |-> state])
  /\ writers' = MapDelete(writers, this.options.path)
  /\ states' = MapDelete(states, this.options.path)
  /\ resolve
  /\ UNCHANGED <<progress, barUpdates, lastBar>>

\* onFinish that leaves the device's latest state in the map of states.
onFinishKeepsState(this, state) ==
  /\ results' = Append(results, [device |-> this.options.path, flash |-> state])
  /\ writers' = MapDelete(writers, this.options.path)
  /\ IF MapSize(writers') = 0
     THEN resolve
     ELSE UNCHANGED <<resolveCalls, settled>>
  /\ UNCHANGED <<states, progress, barUpdates, lastBar>>

\* onFinish that puts its entry in front of the results.
onFinishPrepends(this, state) ==
  /\ results' = <<[device |-> this.options.path, flash |-> state]>> \o results
  /\ writers' = MapDelete(writers, this.options.path)
  /\ states' = MapDelete(states, this.options.path)
  /\ IF MapSize(writers') = 0
     THEN resolve
     ELSE UNCHANGED <<resolveCalls, settled>>
  /\ UNCHANGED <<progress, barUpdates, lastBar>>

\* onFinish that leaves the finished writer in the map of writers.
onFinishKeepsWriter(this, state) ==
  /\ results' = Append(results, [device |-> this.options.path, flash |-> state])
  /\ states' = MapDelete(states, this.options.path)
  /\ UNCHANGED <<writers, resolveCalls, settled, progress, barUpdates, lastBar>>

onFinish(this, state) ==
  /\ results' = Append(results, [device |-> this.options.path, flash |-> state])
  /\ writers' = MapDelete(writers, this.options.path)
  /\ states' = MapDelete(states, this.options.path)
  /\ IF MapSize(writers') = 0
     THEN resolve
     ELSE UNCHANGED <<resolveCalls, settled>>
  /\ UNCHANGED <<progress, barUpdates, lastBar>>

\* One iteration of answers.drive.forEach.
StartWriter ==
  /\ UNCHANGED workerVars
  /\ started < Len(drive)
  /\ LET d == drive[started + 1]
     IN /\ writers' = MapSet(writers, d, ImageWriter(d))
        /\ session' = [session EXCEPT ![d] = "active"]
  /\ started' = started + 1
  /\ UNCHANGED <<drive, payload, handled, states, progress, results, resolveCalls, settled,
                 barUpdates, lastBar, nprogress, nextra, cliExit>>

Running == started = Len(drive) /\ cliExit = -1

\* The writer of d has emitted its terminal event.
Terminal(d) == session[d] \in {"errored", "finished"}

\* A writer emits `progress`.
WriterProgress(d, s) ==
  /\ UNCHANGED workerVars
  /\ Running
  /\ session[d] = "active"
  /\ nprogress < MaxProgress
  /\ nprogress' = nprogress + 1
  /\ onProgress(ProgressState(d, s))
  /\ UNCHANGED <<drive, started, session, payload, handled, nextra, cliExit>>

\* A writer emits `error`: its terminal event.
WriterError(d, e) ==
  /\ UNCHANGED workerVars
  /\ Running
  /\ session[d] = "active"
  /\ session' = [session EXCEPT ![d] = "errored"]
  /\ payload' = [payload EXCEPT ![d] = e]
  /\ handled' = Append(handled, d)
  /\ onError(ImageWriter(d), e)
  /\ UNCHANGED <<drive, started, nprogress, nextra, cliExit>>

\* A writer emits `finish`: its terminal event.
WriterFinish(d, c) ==
  /\ UNCHANGED workerVars
  /\ Running
  /\ session[d] = "active"
  /\ session' = [session EXCEPT ![d] = "finished"]
  /\ payload' = [payload EXCEPT ![d] = c]
  /\ handled' = Append(handled, d)
  /\ onFinish(ImageWriter(d), FinishState(d, c))
  /\ UNCHANGED <<drive, started, nprogress, nextra, cliExit>>

HasError(q) == \E i \in 1..Len(q) : "error" \in DOMAIN q[i]

\* A report that exits with the success code whatever the results hold.
ReportSuccess ==
  /\ UNCHANGED workerVars
  /\ settled
  /\ cliExit = -1
  /\ cliExit' = SUCCESS
  /\ UNCHANGED <<drive, started, session, payload, handled, writers, states, progress,
                 results, resolveCalls, settled, barUpdates, lastBar, nprogress,
                 nextra>>

\* .then((results) => { ... process.exit(exitCode) })
Report ==
  /\ UNCHANGED workerVars
  /\ settled
  /\ cliExit = -1
  /\ cliExit' = IF HasError(results) THEN GENERAL_ERROR ELSE SUCCESS
  /\ UNCHANGED <<drive, started, session, payload, handled, writers, states, progress,
                 results, resolveCalls, settled, barUpdates, lastBar, nprogress,
                 nextra>>

(***************************************************************************)
(* Writers that break their event contract: events after the terminal one. *)
(***************************************************************************)
\* A writer emits `progress` after its terminal event.
LateProgress(d, s) ==
  /\ UNCHANGED workerVars
  /\ Running
  /\ Terminal(d)
  /\ nextra < MaxExtra
  /\ nextra' = nextra + 1
  /\ onProgress(ProgressState(d, s))
  /\ UNCHANGED <<drive, started, session, payload, handled, nprogress, cliExit>>

\* A writer emits `error` after its terminal event.
RepeatedError(d, e) ==
  /\ UNCHANGED workerVars
  /\ Running
  /\ Terminal(d)
  /\ nextra < MaxExtra
  /\ nextra' = nextra + 1
  /\ onError(ImageWriter(d), e)
  /\ UNCHANGED <<drive, started, session, payload, handled, nprogress, cliExit>>

\* A writer emits `finish` after its terminal event.
RepeatedFinish(d, c) ==
  /\ UNCHANGED workerVars
  /\ Running
  /\ Terminal(d)
  /\ nextra < MaxExtra
  /\ nextra' = nextra + 1
  /\ onFinish(ImageWriter(d), FinishState(d, c))
  /\ UNCHANGED <<drive, started, session, payload, handled, nprogress, cliExit>>

CliNext ==
  \/ StartWriter
  \/ \E d \in Devices, s \in Samples : WriterProgress(d, s)
  \/ \E d \in Devices, e \in ErrorValues : WriterError(d, e)
  \/ \E d \in Devices, c \in Checksums : WriterFinish(d, c)
  \/ Report


(***************************************************************************)
(* The IPC worker (the child writer).                                      *)
(***************************************************************************)
Destinations == 1..NumDestinations

\* options.destinations of a `write` command: distinct devices, maybe none.
\* The worker keeps its writers in a Map, so the order of the list has no
\* effect on it: the lists are taken in ascending order.
DestinationLists ==
  { q \in SeqsOver(Destinations, NumDestinations) :
      \A i, j \in 1..Len(q) : i < j => q[i] < q[j] }

RECURSIVE SessionCount(_)
SessionCount(rs) ==
  IF rs = <<>> THEN 0 ELSE MapSize(Head(rs).session) + SessionCount(Tail(rs))

EventNames == {"ready", "log", "state", "error", "done"}

NothingSent ==
  [count |-> [n \in EventNames |-> 0], data |-> EmptyMap, last |-> "none"]

WorkerInit ==
  /\ wstate = "disconnected"
  /\ connected = FALSE
  /\ outbox = NothingSent
  /\ runs = <<>>
  /\ nextTick = <<>>
  /\ wexit = -1
  /\ uncaught = FALSE
  /\ cause = "none"
  /\ terminateCalls = 0
  /\ abortedActive = -1
  /\ lastProgress = <<>>
  /\ nstates = 0

\* The worker process is not part of the same-process orchestration.
WorkerOff == WorkerInit

\* ipc.of[IPC_SERVER_ID].emit(name, data), after the events of `box`.
Emit(box, name, data) ==
  [count |-> [box.count EXCEPT ![name] = @ + 1],
   data |-> MapSet(box.data, name, data),
   last |-> name]

\* log(message)
log(box, message) == Emit(box, "log", message)

\* `this` of the module's arrow functions: module.exports, an empty object.
ModuleThis == [x \in {} |-> 0]

\* Sessions of all runs whose writer has not emitted its terminal event.
ActiveSessions ==
  { <<r, d>> \in (1..Len(runs)) \X Destinations :
      d \in DOMAIN runs[r].session /\ runs[r].session[d] = "active" }

\* terminate(code), called by `by`: ipc.disconnect, then exit on the next tick.
terminate(code, by) ==
  /\ connected' = FALSE
  /\ nextTick' = Append(nextTick, IF code # 0 THEN code ELSE SUCCESS)
  /\ wstate' = "terminating"
  /\ cause' = IF cause = "none" THEN by ELSE cause
  /\ terminateCalls' = terminateCalls + 1

\* errors.toJSON(error) of an error that names no device.
ToJSON(message) == [message |-> message]

\* handleError(error), the uncaughtException handler, after `box` was emitted.
handleError(box, error) ==
  /\ outbox' = Emit(box, "error", ToJSON(error))
  /\ uncaught' = FALSE
  /\ terminate(GENERAL_ERROR, "fault")

\* An exception no handler catches: uncaughtException, handled once.
Throw(box, error) ==
  IF uncaught
  THEN handleError(box, error)
  ELSE /\ outbox' = box
       /\ wstate' = "exited"
       /\ wexit' = GENERAL_ERROR
       /\ UNCHANGED <<connected, nextTick, uncaught, cause, terminateCalls>>

\* The callback of ipc.connectTo: registers the handlers.
ConnectCallback ==
  /\ UNCHANGED cliVars
  /\ UNCHANGED <<abortedActive, lastProgress>>
  /\ wstate = "disconnected"
  /\ wstate' = "connecting"
  /\ connected' = TRUE
  /\ uncaught' = TRUE
  /\ UNCHANGED <<outbox, runs, nextTick, wexit, cause, terminateCalls, nstates>>

\* ipc.of[IPC_SERVER_ID].on('connect', ...)
OnConnect ==
  /\ UNCHANGED cliVars
  /\ UNCHANGED <<abortedActive, lastProgress>>
  /\ wstate = "connecting"
  /\ outbox' = Emit(log(outbox, "Successfully connected to IPC server"), "ready", "{}")
  /\ wstate' = "idle"
  /\ UNCHANGED <<connected, runs, nextTick, wexit, uncaught, cause,
                 terminateCalls, nstates>>

Live == wstate \in {"connecting", "idle", "running"}

\* process.once('SIGINT' / 'SIGTERM'), and the transport's `error` and
\* `disconnect` handlers: each calls terminate(EXIT_CODES.SUCCESS).
AbortTriggers == {"SIGINT", "SIGTERM", "error", "disconnect"}

\* An abort handler that lets the active writers finish first.
onAbortWaits ==
  IF ActiveSessions = {}
  THEN /\ terminate(SUCCESS, "abort")
       /\ UNCHANGED <<outbox, runs, wexit, uncaught>>
  ELSE UNCHANGED <<outbox, runs, wexit, uncaught, wstate, connected,
                   nextTick, cause, terminateCalls>>

\* An abort handler that reports a failure.
onAbortFails ==
  /\ terminate(GENERAL_ERROR, "abort")
  /\ UNCHANGED <<outbox, runs, wexit, uncaught>>

\* The handler of an abort trigger.
onAbort ==
  /\ terminate(SUCCESS, "abort")
  /\ UNCHANGED <<outbox, runs, wexit, uncaught>>

OnAbort(trigger) ==
  /\ UNCHANGED cliVars
  /\ Live
  /\ abortedActive' = IF abortedActive = -1 THEN Cardinality(ActiveSessions)
                      ELSE abortedActive
  /\ onAbort
  /\ UNCHANGED <<lastProgress, nstates>>

\* An exit that takes the code of the last terminate call.
ExitTickLast ==
  /\ UNCHANGED cliVars
  /\ UNCHANGED <<abortedActive, lastProgress>>
  /\ wstate = "terminating"
  /\ nextTick # <<>>
  /\ wexit' = nextTick[Len(nextTick)]
  /\ nextTick' = <<>>
  /\ wstate' = "exited"
  /\ UNCHANGED <<connected, outbox, runs, uncaught, cause, terminateCalls, nstates>>

\* The process.nextTick callback of terminate: process.exit(code).
ExitTick ==
  /\ UNCHANGED cliVars
  /\ UNCHANGED <<abortedActive, lastProgress>>
  /\ wstate = "terminating"
  /\ nextTick # <<>>
  /\ wexit' = Head(nextTick)
  /\ nextTick' = <<>>
  /\ wstate' = "exited"
  /\ UNCHANGED <<connected, outbox, runs, uncaught, cause, terminateCalls, nstates>>

\* The run a `write` command starts.
NewRun(dest) ==
  [writers |-> [d \in Range(dest) |-> ImageWriter(d)],
   session |-> [d \in Range(dest) |-> "active"],
   latest |-> EmptyMap,
   handled |-> <<>>,
   results |-> <<>>,
   exitCode |-> SUCCESS]

\* A `write` handler that reports `done` at once when it has no destination.
OnWriteDoneIfEmpty(dest) ==
  /\ UNCHANGED cliVars
  /\ UNCHANGED <<abortedActive, lastProgress>>
  /\ wstate \in {"idle", "running"}
  /\ Len(runs) < MaxRuns
  /\ SessionCount(runs) + Len(dest) <= MaxSessions
  /\ runs' = Append(runs, NewRun(dest))
  /\ LET logged == log(log(log(log(outbox, "Image"), "Devices"), "Umount on success"),
                       "Validate on success")
     IN IF dest = <<>>
        THEN /\ outbox' = Emit(logged, "done", [results |-> <<>>])
             /\ terminate(SUCCESS, "done")
        ELSE /\ outbox' = logged
             /\ wstate' = "running"
             /\ UNCHANGED <<connected, nextTick, cause, terminateCalls>>
  /\ UNCHANGED <<wexit, uncaught, nstates>>

\* ipc.of[IPC_SERVER_ID].on('write', (options) => { ... })
OnWrite(dest) ==
  /\ UNCHANGED cliVars
  /\ UNCHANGED <<abortedActive, lastProgress>>
  /\ wstate \in {"idle", "running"}
  /\ Len(runs) < MaxRuns
  /\ SessionCount(runs) + Len(dest) <= MaxSessions
  /\ outbox' = log(log(log(log(outbox, "Image"), "Devices"), "Umount on success"),
                   "Validate on success")
  /\ runs' = Append(runs, NewRun(dest))
  /\ wstate' = "running"
  /\ UNCHANGED <<connected, nextTick, wexit, uncaught, cause, terminateCalls, nstates>>

\* onProgress that sends the average of the latest states of all writers.
wonProgressAveraged(state) ==
  LET keys == { <<r, d>> \in (1..Len(runs')) \X Destinations :
                  d \in DOMAIN runs'[r].latest }
      all == [k \in keys |-> runs'[k[1]].latest[k[2]]]
  IN /\ outbox' = Emit(outbox, "state", Average(all))
     /\ UNCHANGED <<wstate, connected, nextTick, wexit, uncaught, cause,
                    terminateCalls>>

\* onProgress(state)
wonProgress(state) ==
  /\ outbox' = Emit(outbox, "state", state)
  /\ UNCHANGED <<wstate, connected, nextTick, wexit, uncaught, cause,
                 terminateCalls>>

\* onFinish that sends `done` and leaves the worker running.
wonFinishStaysUp(r, run, result) ==
  LET after == [run EXCEPT !.results = Append(@, result),
                           !.writers = MapDelete(@, result.drive.device)]
      logged == log(outbox, "Finish")
  IN /\ runs' = [runs EXCEPT ![r] = after]
     /\ outbox' = IF MapSize(after.writers) = 0
                  THEN Emit(logged, "done", [results |-> after.results])
                  ELSE logged
     /\ UNCHANGED <<wstate, connected, nextTick, cause, terminateCalls>>
     /\ UNCHANGED <<wexit, uncaught>>

\* onFinish(result) of run r, with `run` the run's record when it is called.
wonFinish(r, run, result) ==
  LET after == [run EXCEPT !.results = Append(@, result),
                           !.writers = MapDelete(@, result.drive.device)]
      logged == log(outbox, "Finish")
  IN /\ runs' = [runs EXCEPT ![r] = after]
     /\ IF MapSize(after.writers) = 0
        THEN /\ outbox' = Emit(logged, "done", [results |-> after.results])
             /\ terminate(after.exitCode, "done")
        ELSE /\ outbox' = logged
             /\ UNCHANGED <<wstate, connected, nextTick, cause, terminateCalls>>
     /\ UNCHANGED <<wexit, uncaught>>

\* onError(error) of run r: an arrow function, its `this` is the module's.
wonError(r, run, error) ==
  LET failed == [run EXCEPT !.exitCode = GENERAL_ERROR]
      logged == log(outbox, error.message)
  IN /\ runs' = [runs EXCEPT ![r] = failed]
     /\ UNCHANGED wexit
     /\ IF "destinationDevice" \in DOMAIN ModuleThis
        THEN \* onFinish() without a result: result.drive cannot be read
             Throw(Emit(logged, "error",
                        [message |-> error.message,
                         device |-> ModuleThis.destinationDevice.device]),
                   "TypeError")
        ELSE Throw(logged, "TypeError")

SessionActive(r, d) ==
  /\ wstate = "running"
  /\ r \in 1..Len(runs)
  /\ d \in DOMAIN runs[r].session
  /\ runs[r].session[d] = "active"

\* A writer of run r emits `progress`.
WorkerProgress(r, d, s) ==
  /\ UNCHANGED cliVars
  /\ SessionActive(r, d)
  /\ nstates < MaxStates
  /\ nstates' = nstates + 1
  /\ runs' = [runs EXCEPT ![r].latest = MapSet(@, d, ProgressState(d, s))]
  /\ lastProgress' = <<[state |-> ProgressState(d, s),
                        average |-> Average(runs'[r].latest)]>>
  /\ UNCHANGED abortedActive
  /\ wonProgress(ProgressState(d, s))

\* A writer of run r emits `finish`.
WorkerFinish(r, d, c) ==
  /\ UNCHANGED cliVars
  /\ UNCHANGED <<abortedActive, lastProgress>>
  /\ SessionActive(r, d)
  /\ wonFinish(r, [runs[r] EXCEPT !.session[d] = "finished",
                                   !.latest = MapDelete(@, d),
                                   !.handled = Append(@, d)], FinishState(d, c))
  /\ UNCHANGED nstates

\* A writer of run r emits `error`.
WorkerError(r, d, e) ==
  /\ UNCHANGED cliVars
  /\ UNCHANGED <<abortedActive, lastProgress>>
  /\ SessionActive(r, d)
  /\ wonError(r, [runs[r] EXCEPT !.session[d] = "errored",
                                  !.latest = MapDelete(@, d),
                                  !.handled = Append(@, d)], [message |-> e])
  /\ UNCHANGED nstates

WorkerNext ==
  \/ ConnectCallback
  \/ OnConnect
  \/ \E t \in AbortTriggers : OnAbort(t)
  \/ \E dest \in DestinationLists : OnWrite(dest)
  \/ \E r \in 1..MaxRuns, d \in Destinations, s \in WorkerSamples : WorkerProgress(r, d, s)
  \/ \E r \in 1..MaxRuns, d \in Destinations, c \in WorkerChecksums : WorkerFinish(r, d, c)
  \/ \E r \in 1..MaxRuns, d \in Destinations, e \in ErrorValues : WorkerError(r, d, e)
  \/ ExitTick

\* The same-process orchestrator is not part of the worker process.
CliOff ==
  /\ drive = <<>>
  /\ started = 0
  /\ session = [d \in Devices |-> "pending"]
  /\ payload = [d \in Devices |-> ""]
  /\ handled = <<>>
  /\ writers = EmptyMap
  /\ states = EmptyMap
  /\ progress = InitialProgress
  /\ results = <<>>
  /\ resolveCalls = 0
  /\ settled = FALSE
  /\ barUpdates = 0
  /\ lastBar = "none"
  /\ nprogress = 0
  /\ nextra = 0
  /\ cliExit = -1

WorkerSpecInit == CliOff /\ WorkerInit

WorkerSpec == WorkerSpecInit /\ [][WorkerNext]_vars

\* The nextTick callback of terminate runs before any other event.
WorkerLiveSpec == WorkerSpec /\ WF_vars(ExitTick)

\* An abort handler that runs after terminate was called and before its
\* nextTick callback: a further call of terminate before the process exits.
OnAbortPending(trigger) ==
  /\ UNCHANGED cliVars
  /\ wstate = "terminating"
  /\ Len(nextTick) < MaxPending
  /\ onAbort
  /\ UNCHANGED <<abortedActive, lastProgress, nstates>>

WorkerReentrantNext ==
  \/ WorkerNext
  \/ \E t \in AbortTriggers : OnAbortPending(t)

WorkerReentrantSpec == WorkerSpecInit /\ [][WorkerReentrantNext]_vars

(***************************************************************************)
(* Properties of the IPC worker.                                           *)
(***************************************************************************)
Sent(name) == outbox.count[name]

Sessions ==
  { <<r, d>> \in (1..Len(runs)) \X Destinations : d \in DOMAIN runs[r].session }

\* An `error` event with device d attached was sent.
DeviceErrorSent(d) ==
  /\ Sent("error") > 0
  /\ "device" \in DOMAIN outbox.data["error"]
  /\ outbox.data["error"].device = d

\* C4: every `error` of a writer is forwarded as an `error` event with that
\* device attached, and the worker keeps running its remaining sessions: a
\* writer's error does not make the worker terminate while others are active.
C4_DeviceErrorsForwarded ==
  \A k \in Sessions :
    runs[k[1]].session[k[2]] = "errored" =>
      /\ DeviceErrorSent(k[2])
      /\ ActiveSessions # {} => wstate = "running"

AbortedMidRun == abortedActive > 0

\* C5: when `disconnect` is delivered while sessions are active, the worker
\* terminates without waiting for them (they are still active when it exits)
\* and no `done` event is emitted at any point.
C5_DisconnectMidRun ==
  /\ [](AbortedMidRun =>
          /\ wstate \in {"terminating", "exited"}
          /\ Cardinality(ActiveSessions) = abortedActive
          /\ Sent("done") = 0)
  /\ (AbortedMidRun ~> wstate = "exited")

C5_Witness ==
  /\ wstate = "exited"
  /\ abortedActive > 0
  /\ Cardinality(ActiveSessions) = abortedActive
  /\ \E r \in 1..Len(runs) : Len(runs[r].results) > 0

\* C6: from any state after the connect callback has run, an abort trigger
\* leads to terminating and then to exited, with the success code.
C6_AbortExitsWithSuccess ==
  /\ [](abortedActive >= 0 =>
          \/ wstate = "terminating" /\ nextTick = <<SUCCESS>>
          \/ wstate = "exited" /\ wexit = SUCCESS)
  /\ (abortedActive >= 0 ~> (wstate = "exited" /\ wexit = SUCCESS))

C6_Witness ==
  /\ wstate = "exited"
  /\ cause = "abort"
  /\ wexit = SUCCESS
  /\ abortedActive = 0
  /\ runs # <<>>

\* C7: an uncaught fault is forwarded as an `error` event, and the worker
\* then exits with the general-error code, whatever further calls of
\* terminate happen before the process exits.
C7_FaultExitsWithGeneralError ==
  cause = "fault" =>
    /\ Sent("error") > 0 /\ outbox.last = "error"
    /\ \/ wstate = "terminating" /\ Head(nextTick) = GENERAL_ERROR
       \/ wstate = "exited" /\ wexit = GENERAL_ERROR

C7_Witness ==
  /\ wstate = "exited"
  /\ cause = "fault"
  /\ terminateCalls >= 2
  /\ wexit = GENERAL_ERROR

\* The `state` event sent last.
StateEvent == outbox.data["state"]

\* An aggregated progress and a state show the same phase and numbers.
SameSnapshot(average, state) ==
  /\ average.type = state.type
  /\ \A f \in Range(NumericFields) : average[f] = Number(state[f])

Init == CliInit /\ WorkerOff
Next == CliNext
Spec == Init /\ [][Next]_vars

(***************************************************************************)
(* Properties of the same-process orchestrator.                            *)
(***************************************************************************)
\* The writer of d emits its terminal event.
TerminalEvent(d) ==
  \/ \E e \in ErrorValues : WriterError(d, e)
  \/ \E c \in Checksums : WriterFinish(d, c)

\* Every writer is started, and every started writer emits its terminal event.
LiveSpec ==
  /\ Spec
  /\ WF_vars(StartWriter)
  /\ \A d \in Devices : WF_vars(TerminalEvent(d))

\* The entries of the results that name device d.
Entries(d) == { i \in 1..Len(results) : results[i].device = d }

OneEntryPerDrive ==
  /\ Len(results) = Len(drive)
  /\ \A d \in Range(drive) : Cardinality(Entries(d)) = 1

\* C1: for every non-empty list of distinct drives and every interleaving of
\* the writers' events, the orchestration eventually resolves, and the
\* resolved results have exactly one entry per requested drive.
C1_EventuallyResolved == <>settled /\ [](settled => OneEntryPerDrive)

C1_Witness ==
  /\ settled
  /\ Len(drive) = NumDevices
  /\ OneEntryPerDrive
  /\ nprogress > 0

\* C2: resolve(results) takes effect at most once, and only when the map of
\* writers is empty and every started writer has emitted its terminal event.
C2_ResolvedOnceAllTerminal ==
  /\ resolveCalls <= 1
  /\ settled <=> resolveCalls = 1
  /\ settled => /\ started = Len(drive)
                /\ MapSize(writers) = 0
                /\ \A d \in Range(drive) : Terminal(d)

C2_Witness ==
  /\ settled
  /\ resolveCalls = 1
  /\ Len(drive) >= 2
  /\ cliExit = -1

\* The entry the results hold for d is the one its terminal event asks for.
EntryMatches(d) ==
  \A i \in Entries(d) :
    IF session[d] = "errored"
    THEN DOMAIN results[i] = {"device", "error"} /\ results[i].error = payload[d]
    ELSE /\ DOMAIN results[i] = {"device", "flash"}
         /\ results[i].flash.checksum.crc32 = payload[d]

\* C3: an `error` of one writer removes that device alone from the writers and
\* records its failure; the other writers stay in the map until their own
\* terminal event; once all are terminal the orchestration is resolved, with
\* one failure entry per errored device and one success entry, carrying the
\* finish state, per finished device.
C3_ErrorsIsolated ==
  /\ \A d \in Range(drive) :
       /\ session[d] = "active" => d \in DOMAIN writers /\ Entries(d) = {}
       /\ Terminal(d) => /\ d \notin DOMAIN writers
                         /\ Cardinality(Entries(d)) = 1
                         /\ EntryMatches(d)
  /\ (started = Len(drive) /\ \A d \in Range(drive) : Terminal(d)) => settled
  /\ settled => \A d \in Range(drive) : Terminal(d)

\* /dev/b fails with "write failed", /dev/a and /dev/c finish with checksums.
C3_Witness ==
  /\ settled
  /\ drive = <<1, 2, 3>>
  /\ session[2] = "errored" /\ payload[2] = "write failed"
  /\ session[1] = "finished" /\ payload[1] = "AAA"
  /\ session[3] = "finished" /\ payload[3] = "CCC"
  /\ Len(results) = 3


\* The same-process orchestrator with writers that may break their contract.
DefensiveNext ==
  \/ CliNext
  \/ \E d \in Devices, s \in Samples : LateProgress(d, s)
  \/ \E d \in Devices, e \in ErrorValues : RepeatedError(d, e)
  \/ \E d \in Devices, c \in Checksums : RepeatedFinish(d, c)

DefensiveSpec == Init /\ [][DefensiveNext]_vars

\* C9: a terminal event delivered twice for the same device still counts the
\* device once in the results, and the orchestration is resolved only once.
C9_TerminalHandledOnce ==
  /\ \A d \in Range(drive) : Cardinality(Entries(d)) <= 1
  /\ resolveCalls <= 1

\* C10: a `progress` event that arrives for a device after its terminal event
\* is ignored: the device is not put back into the map of latest states, the
\* aggregated progress does not change and no observer is updated.
C10_LateProgressIgnored ==
  [][\A d \in Devices, s \in Samples :
       LateProgress(d, s) =>
         /\ states' = states
         /\ progress' = progress
         /\ barUpdates' = barUpdates]_vars

\* The denominator of every number of an aggregated progress is not zero.
Defined(p) == \A f \in Range(NumericFields) : p[f][2] >= 1

\* C11: every aggregated progress handed to a progress bar was divided by the
\* size of a map of latest states that holds at least one entry, so no number
\* of it is the result of a division by zero; a step that leaves the map empty
\* (the terminal event of the last device in it) computes no aggregate and
\* updates no progress bar.
C11_NeverDividesByZero ==
  /\ [](Defined(progress))
  /\ [][/\ barUpdates' # barUpdates => MapSize(states') >= 1
        /\ MapSize(states') = 0 => progress' = progress /\ barUpdates' = barUpdates]_vars

\* A device was removed by its terminal event, the bar was updated before and
\* after, and the map of latest states holds the one device still active.
C11_Witness ==
  /\ barUpdates = 2
  /\ Len(handled) = 1
  /\ DOMAIN states = DOMAIN writers
  /\ MapSize(states) = 1
  /\ Defined(progress)

\* Every state a writer reports has its percentage in [0, 100] and a speed
\* and an eta that are not negative.
SamplesWithinRange ==
  \A s \in Samples :
    /\ 0 <= s.percentage /\ s.percentage <= 100
    /\ s.speed >= 0 /\ s.eta >= 0

\* The percentage of p is a number in [0, 100], its speed and eta are numbers
\* that are not negative.
WithinRange(p) ==
  /\ p.percentage[2] >= 1 /\ p.speed[2] >= 1 /\ p.eta[2] >= 1
  /\ 0 <= p.percentage[1] /\ p.percentage[1] <= 100 * p.percentage[2]
  /\ p.speed[1] >= 0
  /\ p.eta[1] >= 0

\* C12: the writers' states being within range, every aggregated progress has
\* its percentage in [0, 100] and a speed and an eta that are not negative,
\* whatever updates and removals came before; an aggregate computed over a map
\* of one device has the phase and the numbers of that device's state.
C12_AggregateWithinRange ==
  /\ [](SamplesWithinRange => WithinRange(progress))
  /\ [][(barUpdates' # barUpdates /\ MapSize(states') = 1) =>
          \A d \in DOMAIN states' : SameSnapshot(progress', states'[d])]_vars

\* Three drives, two of them removed; the aggregate is the state, at 90%, of
\* the one still active.
C12_Witness ==
  /\ Len(drive) = 3
  /\ Len(handled) = 2
  /\ MapSize(states) = 1
  /\ \A d \in DOMAIN states :
       /\ d \in DOMAIN writers
       /\ states[d].percentage = 90
       /\ SameSnapshot(progress, states[d])

\* The writer of some requested drive has emitted `error`.
SomeDeviceFailed == \E d \in Range(drive) : session[d] = "errored"

\* C13, as stated: once the orchestration has resolved, the process exits
\* with code 0, even if one or more devices failed.
C13_ExitsZeroOnceResolved ==
  cliExit # -1 => settled /\ cliExit = SUCCESS

\* C13, amended: once the orchestration has resolved, the process exits with
\* code 0 when no device failed and with the general-error code when at least
\* one device failed.
C13_ExitReflectsFailures ==
  cliExit # -1 =>
    /\ settled
    /\ cliExit = IF SomeDeviceFailed THEN GENERAL_ERROR ELSE SUCCESS

\* One drive failed, another finished, and the process has exited.
C13_Witness ==
  /\ cliExit = GENERAL_ERROR
  /\ \E d \in Range(drive) : session[d] = "errored"
  /\ \E d \in Range(drive) : session[d] = "finished"

\* p is the aggregate of the map m: its phase is write exactly when an entry
\* of m is in the write phase, and each number of p, times the number of
\* entries, is the sum of that field over the entries.
AggregateOf(p, m) ==
  /\ p.type = IF \E k \in DOMAIN m : m[k].type = "write" THEN "write" ELSE "check"
  /\ \A f \in Range(NumericFields) :
       /\ p[f][2] >= 1
       /\ p[f][1] * MapSize(m) = p[f][2] * SumField(m, DOMAIN m, f)

\* C14: every `progress` event records the state as the latest of its device
\* and recomputes the aggregate from the map of latest states alone: the phase
\* and the per-field means of the entries now in the map, whatever the
\* aggregate was before; that aggregate is what the progress bar of its phase
\* is updated with.
C14_RecomputedFromScratch ==
  [][\A d \in Devices, s \in Samples :
       WriterProgress(d, s) =>
         /\ states' = MapSet(states, d, ProgressState(d, s))
         /\ AggregateOf(progress', states')
         /\ barUpdates' = barUpdates + 1
         /\ lastBar' = progress'.type]_vars

\* Two devices, one writing at 40% and one checking at 90%: the aggregate is
\* in the write phase, at 65%.
C14_Witness ==
  /\ barUpdates = 2
  /\ MapSize(states) = 2
  /\ \E a, b \in DOMAIN states :
       /\ states[a].type = "write" /\ states[a].percentage = 40
       /\ states[b].type = "check" /\ states[b].percentage = 90
  /\ progress.type = "write"
  /\ progress.percentage = <<65, 1>>
  /\ AggregateOf(progress, states)

\* C15: once the terminal event of a device is handled its latest state is
\* out of the map of states, and every aggregate computed afterwards is the
\* aggregate of the states of devices that are still active: a terminated
\* device is in neither the sums nor the divisor.
C15_TerminatedLeaveTheMap ==
  /\ [](\A d \in Range(drive) : Terminal(d) => d \notin DOMAIN states)
  /\ [][barUpdates' # barUpdates =>
          /\ \A d \in DOMAIN states' : session'[d] = "active"
          /\ AggregateOf(progress', states')]_vars

\* Two progress events were handled and the first device has finished; the
\* map holds the second device alone and the aggregate is its state, at 50%.
C15_Witness ==
  /\ drive = <<1, 2>>
  /\ nprogress = 2
  /\ session[1] = "finished"
  /\ DOMAIN states = {2}
  /\ states[2].percentage = 50
  /\ progress.percentage = <<50, 1>>

(***************************************************************************)
(* Either program, each run on its own: the same-process orchestrator with *)
(* any list of drives, the empty list and lists in descending order        *)
(* included, or the IPC worker.                                            *)
(***************************************************************************)
Reverse(q) == [i \in 1..Len(q) |-> q[Len(q) + 1 - i]]

\* answers.drive: no drive, or distinct drives in ascending or descending order.
DriveListsBothWays ==
  {<<>>} \cup DriveLists \cup { Reverse(q) : q \in DriveLists }

CliInitAnyList ==
  /\ drive \in DriveListsBothWays
  /\ started = 0
  /\ session = [d \in Devices |-> "pending"]
  /\ payload = [d \in Devices |-> ""]
  /\ handled = <<>>
  /\ writers = EmptyMap
  /\ states = EmptyMap
  /\ progress = InitialProgress
  /\ results = <<>>
  /\ resolveCalls = 0
  /\ settled = FALSE
  /\ barUpdates = 0
  /\ lastBar = "none"
  /\ nprogress = 0
  /\ nextra = 0
  /\ cliExit = -1

\* There is no worker process next to the same-process orchestrator.
WorkerAbsent ==
  /\ wstate = "absent"
  /\ connected = FALSE
  /\ outbox = NothingSent
  /\ runs = <<>>
  /\ nextTick = <<>>
  /\ wexit = -1
  /\ uncaught = FALSE
  /\ cause = "none"
  /\ terminateCalls = 0
  /\ abortedActive = -1
  /\ lastProgress = <<>>
  /\ nstates = 0

OrchestratorInit == CliInitAnyList /\ WorkerAbsent

ProgramsInit == OrchestratorInit \/ WorkerSpecInit

ProgramsNext == CliNext \/ WorkerNext

ProgramsSpec == ProgramsInit /\ [][ProgramsNext]_vars

\* The devices the entries of a list of results name, in the order of the list.
ResultDevices == [i \in 1..Len(results) |-> results[i].device]

\* The devices the results of run r of the worker name, in their order.
RunResultDevices(r) ==
  [i \in 1..Len(runs[r].results) |-> runs[r].results[i].drive.device]

\* The devices of run r whose `finish` was handled, in the order of handling.
RunFinished(r) ==
  SelectSeq(runs[r].handled, LAMBDA d : runs[r].session[d] = "finished")

\* C16: the results name the devices in the order in which their terminal
\* events were handled, whatever the order of the list of destinations: in the
\* orchestrator at every moment, and so when the results are resolved; in the
\* worker for the results of each `write` command, and so in the `done` event.
C16_ResultsInCompletionOrder ==
  /\ ResultDevices = handled
  /\ \A r \in 1..Len(runs) : RunResultDevices(r) = RunFinished(r)
  /\ Sent("done") > 0 =>
       \E r \in 1..Len(runs) :
         /\ MapSize(runs[r].writers) = 0
         /\ outbox.data["done"].results = runs[r].results

\* Drives given as 3, 2, 1 and terminated in the order 2, 3, 1.
C16_Witness ==
  /\ settled
  /\ drive = <<3, 2, 1>>
  /\ handled = <<2, 3, 1>>
  /\ ResultDevices = <<2, 3, 1>>

\* The worker has sent `done` for destinations 1 and 2, finished as 2, 1.
C16_WorkerWitness ==
  /\ Sent("done") = 1
  /\ \E r \in 1..Len(runs) :
       /\ runs[r].handled = <<2, 1>>
       /\ outbox.data["done"].results = runs[r].results
       /\ RunResultDevices(r) = <<2, 1>>

\* C17: every writer emitting at most one terminal event, once all writers
\* are started each requested drive is either in the map of writers, with no
\* entry in the results, or out of the map with exactly one entry, and the
\* results name requested drives only: the size of the map and the length of
\* the results add up to the number of requested drives.
C17_ActiveOrRecorded ==
  started = Len(drive) =>
    /\ \A d \in Range(drive) :
         \/ d \in DOMAIN writers /\ Cardinality(Entries(d)) = 0
         \/ d \notin DOMAIN writers /\ Cardinality(Entries(d)) = 1
    /\ DOMAIN writers \subseteq Range(drive)
    /\ \A i \in 1..Len(results) : results[i].device \in Range(drive)
    /\ MapSize(writers) + Len(results) = Len(drive)

\* Three drives: one failed, one finished, one still active.
C17_Witness ==
  /\ Len(drive) = 3
  /\ started = 3
  /\ MapSize(writers) = 1
  /\ Len(results) = 2
  /\ HasError(results)
  /\ \E i \in 1..Len(results) : "flash" \in DOMAIN results[i]

\* C18: in the whole life of a worker process, whatever `write` commands,
\* writer events and abort triggers it gets, at most one `done` event is sent,
\* and from the first call of terminate on no `state` and no `done` event is
\* sent.
C18_OneDoneThenSilence ==
  /\ [](Sent("done") <= 1)
  /\ [][terminateCalls >= 1 =>
          /\ outbox'.count["state"] = outbox.count["state"]
          /\ outbox'.count["done"] = outbox.count["done"]]_vars

\* Two `write` commands: the first has sent `done`, a writer of the second is
\* still active, an abort trigger came before the exit, the process has exited.
C18_Witness ==
  /\ wstate = "exited"
  /\ Len(runs) = 2
  /\ Sent("done") = 1
  /\ Sent("state") >= 1
  /\ cause = "done"
  /\ terminateCalls >= 2
  /\ ActiveSessions # {}

\* The orchestrator was started with an empty list of drives.
NoDrives == wstate = "absent" /\ drive = <<>>

\* The worker has got `write` commands, all with an empty list of destinations.
NoDestinations ==
  /\ runs # <<>>
  /\ \A r \in 1..Len(runs) : DOMAIN runs[r].session = {}

\* C19: with an empty list of drives the orchestrator starts no writer, runs
\* no terminal handler, and never resolves (nor exits); a worker whose `write`
\* commands all have an empty list of destinations starts no writer, never
\* sends `done`, and leaves the running state only by an abort trigger.
C19_EmptyListNeverCompletes ==
  /\ NoDrives =>
       /\ MapSize(writers) = 0 /\ handled = <<>> /\ results = <<>>
       /\ resolveCalls = 0 /\ ~settled /\ cliExit = -1
  /\ NoDestinations =>
       /\ \A r \in 1..Len(runs) :
            MapSize(runs[r].writers) = 0 /\ runs[r].results = <<>>
       /\ Sent("done") = 0
       /\ \/ wstate = "running"
          \/ wstate \in {"terminating", "exited"} /\ cause = "abort"

\* Two `write` commands without destinations, then an abort trigger: the
\* worker has exited, and has sent no `done`.
C19_Witness ==
  /\ NoDestinations
  /\ Len(runs) = 2
  /\ wstate = "exited"
  /\ cause = "abort"
  /\ Sent("done") = 0

\* The orchestrator with no drive: all writers (none) are started.
C19_OrchestratorWitness ==
  /\ NoDrives
  /\ started = Len(drive)
  /\ ~settled

====
